---- MODULE Spec2Model ----
(***************************************************************************)
(* AvocadoTraceContract (src/unnamed/part_000): threshold registry, lot    *)
(* lifecycle and the compliance audit engine.  Every public function of    *)
(* the contract is one action; a transaction either runs to its end or     *)
(* reverts, in which case the contract storage is left as it was and only  *)
(* the receipt tells what happened.                                        *)
(***************************************************************************)
EXTENDS Integers, Sequences, FiniteSets, TLC

\* ------------------------------------------------------------------------
\* Bounds of the model
\* ------------------------------------------------------------------------
\* uint256 is modelled by an unsigned word of UintBits bits; Solidity 0.8
\* arithmetic is checked, so a result above UintMax reverts the transaction.
UintBits == 24

UintMax == 2 ^ UintBits - 1

\* block.timestamp ranges over 1..MaxTime and never decreases.
MaxTime == 2

\* ------------------------------------------------------------------------
\* Values the transactions are called with
\* ------------------------------------------------------------------------
Deployer == "admin"

Actors == {"admin", "carrier"}

ZeroAddress == "0x0"

LotIds == {"L1", "L2"}

\* The lot under study is called with the full sets below; the second lot
\* stands by: it is registered, transported and transferred, each with one value.
Bystander == "L2"

\* Registrations: sender, variety, initial weight.
Registrations(id) ==
    IF id = Bystander THEN {<<"carrier", "Fuerte", 100>>}
    ELSE {<<"admin", "Hass", 100>>, <<"carrier", "Fuerte", 0>>}

ReceptionWeights(id) == IF id = Bystander THEN {} ELSE {0, 90, 96, UintMax}

TransportTemps(id) == IF id = Bystander THEN {810} ELSE {750, 810}

TempInputs(id) == IF id = Bystander THEN {} ELSE {0, 810}

WeightInputs(id) == IF id = Bystander THEN {0} ELSE {0, 110}

DryMatterInputs(id) == IF id = Bystander THEN {0} ELSE {0, 20}

InitialThresholds == <<800, 5, 21>>

NewThresholds == {<<800, 5, 21>>, <<750, 10, 25>>}

Amounts == {1500}

\* Inputs of the audit engine taken on its own (SpecEval).
EvalInitialWeights == {0, 100, 12000}

EvalStoredWeights == {0, 90, 11400}

EvalStoredTemps == {0, 750, 810}

EvalTempInputs == {0, 750, 800, 801}

EvalWeightInputs == {0, 94, 95, 105, 106, 12601, UintMax}

EvalDryMatterInputs == {0, 20, 21}

EvalThresholds == {<<800, 5, 21>>, <<750, 10, 25>>, <<0, 0, 0>>}

\* ------------------------------------------------------------------------
\* Reason strings of AuditResult
\* ------------------------------------------------------------------------
\* (the accented letters of the source strings are written without accent)
ReasonPending == "Pendiente de Auditoria"

ReasonCompliant == "Lote Conforme. Cumple con todos los SC."

ReasonTemperature == "FALLA: Temperatura promedio excedida. Umbral MAX: "

ReasonWeight == "FALLA: Desviacion de peso entre etapas excedida. Lote rechazado."

ReasonDryMatter == "FALLA: Materia seca final insuficiente. No apto para exportacion."

\* Revert messages of the require statements, and the arithmetic panic.
DuplicateLot == "Lote ya registrado."

LotNotFound == "Lote no encontrado."

PermissionDenied == "Acceso denegado: Solo el administrador puede ejecutar esta funcion."

Panic == "Panic(0x11)"

\* ------------------------------------------------------------------------
\* State
\* ------------------------------------------------------------------------
VARIABLES
    owner,                      \* address public owner
    MAX_TEMP_TRANSPORT_C,       \* uint256, degrees C x100
    MAX_WEIGHT_DEVIATION_PCT,   \* uint256, percent
    MIN_DRY_MATTER_PCT,         \* uint256, percent
    batches,                    \* mapping(string => BatchData)
    now,                        \* block.timestamp of the latest transaction
    tx,                         \* the latest transaction: its call, status and event log
    req,                        \* server.js: the request POST /api/upload is handling
    res,                        \* server.js: the response it sent
    history,                    \* server.js: the records of uploads-history.json
    printed,                    \* test-csv-parsing.js: the totals it printed
    clock,                      \* server.js: the server's time, as the Date it reads
    allHistoryData,             \* aiAnalysis.js: the records fetched from /api/history
    processedData               \* aiAnalysis.js: what processData returned for them

vars == <<owner, MAX_TEMP_TRANSPORT_C, MAX_WEIGHT_DEVIATION_PCT, MIN_DRY_MATTER_PCT,
          batches, now, tx, req, res, history, printed, clock,
          allHistoryData, processedData>>

contractVars == <<owner, MAX_TEMP_TRANSPORT_C, MAX_WEIGHT_DEVIATION_PCT, MIN_DRY_MATTER_PCT,
                  batches, now, tx>>

serverVars == <<req, res, history, printed, clock>>

clientVars == <<allHistoryData, processedData>>

\* No request has arrived, no response was sent, nothing was printed.
NoRequest ==
    [route |-> "POST /api/upload", hasFile |-> FALSE, readable |-> FALSE,
     lines |-> <<>>, userId |-> ""]

NoResponse == [status |-> 0, success |-> FALSE]

NoOutput == [ran |-> FALSE, total |-> 0, conformes |-> 0, hallazgos |-> 0, noAdmitidas |-> 0]

\* The server has handled nothing and its history file does not exist.
ServerIdle ==
    /\ req = NoRequest /\ res = NoResponse /\ history = <<>> /\ printed = NoOutput
    /\ clock = 1

\* The dashboard has fetched nothing and processed nothing.
NotProcessed == [processed |-> FALSE]

ClientIdle == allHistoryData = <<>> /\ processedData = NotProcessed

thresholdVars == <<MAX_TEMP_TRANSPORT_C, MAX_WEIGHT_DEVIATION_PCT, MIN_DRY_MATTER_PCT>>

AuditResult(isCompliant, reason, timestamp) ==
    [isCompliant |-> isCompliant, reason |-> reason, timestamp |-> timestamp]

\* Value of batches[id] for a key that was never written: all fields zero.
EmptyBatch ==
    [loteId |-> "", variety |-> "", registeredBy |-> ZeroAddress,
     initialWeight |-> 0, finalWeightReceived |-> 0, avgTemperature |-> 0,
     audit |-> AuditResult(FALSE, "", 0)]

\* An existence test on the initial weight instead of the timestamp.
BatchExistsByWeight(loteId) == batches[loteId].initialWeight # 0

\* The existence test of the require statements: `batches[loteId].timestamp`,
\* the only timestamp of a BatchData being the one of its AuditResult.
BatchExists(loteId) == batches[loteId].audit.timestamp # 0

\* registerBatchInitialData is the only function that writes the loteId field.
Registered(loteId) == batches[loteId].loteId = loteId

\* ------------------------------------------------------------------------
\* Events and receipts
\* ------------------------------------------------------------------------
ThresholdsUpdated(by, maxTemp, maxWeightDev, minDryMatter) ==
    [name |-> "ThresholdsUpdated", by |-> by, maxTemp |-> maxTemp,
     maxWeightDev |-> maxWeightDev, minDryMatter |-> minDryMatter]

BatchRegistered(loteId, registrador) ==
    [name |-> "BatchRegistered", loteId |-> loteId, registrador |-> registrador]

BatchAuditCompleted(loteId, compliant, reason) ==
    [name |-> "BatchAuditCompleted", loteId |-> loteId, compliant |-> compliant,
     reason |-> reason]

AssetTransfer(loteId, from, to, amountUSD) ==
    [name |-> "AssetTransfer", loteId |-> loteId, from |-> from, to |-> to,
     amountUSD |-> amountUSD]

Success(call, logs) == [call |-> call, status |-> "ok", logs |-> logs]

Revert(call, error) == [call |-> call, status |-> error, logs |-> <<>>]

\* The calls of the contract, as a transaction carries them.
ConstructorCall(sender, thr) == [op |-> "constructor", sender |-> sender, thresholds |-> thr]

RegisterCall(sender, loteId, variety, initialWeight) ==
    [op |-> "registerBatchInitialData", sender |-> sender, loteId |-> loteId,
     variety |-> variety, initialWeight |-> initialWeight]

TransportCall(loteId, avgTemperature) ==
    [op |-> "updateTransportData", loteId |-> loteId, avgTemperature |-> avgTemperature]

ReceptionCall(loteId, finalWeightReceived) ==
    [op |-> "updateReceptionData", loteId |-> loteId,
     finalWeightReceived |-> finalWeightReceived]

ThresholdsCall(sender, newMaxTemp, newMaxWeightDev, newMinDryMatter) ==
    [op |-> "setThresholds", sender |-> sender, newMaxTemp |-> newMaxTemp,
     newMaxWeightDev |-> newMaxWeightDev, newMinDryMatter |-> newMinDryMatter]

EvaluateCall(loteId, tIn, wIn, dIn) ==
    [op |-> "evaluateBatch", loteId |-> loteId, avgTemperatureC_Input |-> tIn,
     finalWeightReceived_Input |-> wIn, finalDryMatterPct_Input |-> dIn]

TransferCall(sender, loteId, newOwner, amountUSD) ==
    [op |-> "transferAsset", sender |-> sender, loteId |-> loteId, newOwner |-> newOwner,
     amountUSD |-> amountUSD]

\* A reverted transaction leaves the storage as it was.
Reverted(call, error) ==
    /\ tx' = Revert(call, error)
    /\ UNCHANGED <<owner, thresholdVars, batches>>

\* The block of a transaction: its timestamp is not before the latest one.
InBlock(ts) == ts \in now..MaxTime /\ now' = ts

\* ------------------------------------------------------------------------
\* 7. The audit engine (evaluateBatch), step by step
\* ------------------------------------------------------------------------
\* Checked multiplication: a * b does not fit the word.
MulOverflows(a, b) == b # 0 /\ a > UintMax \div b

\* Stored data is used when an input is not given (0).
ResolvedTemp(batch, avgTemperatureC_Input) ==
    IF avgTemperatureC_Input # 0 THEN avgTemperatureC_Input ELSE batch.avgTemperature

\* The final weight taken from the input alone.
InputFinalWeight(batch, finalWeightReceived_Input) == finalWeightReceived_Input

ResolvedFinalWeight(batch, finalWeightReceived_Input) ==
    IF finalWeightReceived_Input # 0 THEN finalWeightReceived_Input
    ELSE batch.finalWeightReceived

Difference(initialWeight, finalWeight) ==
    IF initialWeight > finalWeight THEN initialWeight - finalWeight
    ELSE finalWeight - initialWeight

\* The deviation rounded to the nearest hundredth instead of truncated.
WeightDeviationRounded(initialWeight, finalWeight) ==
    (Difference(initialWeight, finalWeight) * 100 * 100 + initialWeight \div 2)
        \div initialWeight

\* The deviation taken relative to the final weight.
WeightDeviationOfFinal(initialWeight, finalWeight) ==
    (Difference(initialWeight, finalWeight) * 100 * 100) \div finalWeight

\* (difference * 100 * 100) / initialWeight, the deviation in hundredths of a percent.
WeightDeviation(initialWeight, finalWeight) ==
    (Difference(initialWeight, finalWeight) * 100 * 100) \div initialWeight

\* The temperature check with an inclusive bound.
TemperatureAuditInclusive(avgTemp) ==
    IF avgTemp >= MAX_TEMP_TRANSPORT_C
    THEN [compliant |-> FALSE, reason |-> ReasonTemperature]
    ELSE [compliant |-> TRUE, reason |-> ReasonCompliant]

\* AUDITORIA 1: a verdict is the pair (compliant, reason).
TemperatureAudit(avgTemp) ==
    IF avgTemp > MAX_TEMP_TRANSPORT_C
    THEN [compliant |-> FALSE, reason |-> ReasonTemperature]
    ELSE [compliant |-> TRUE, reason |-> ReasonCompliant]

\* The weight check without the `compliant &&` of its condition.
WeightAuditCumulative(verdict, initialWeight, finalWeight) ==
    IF /\ initialWeight > 0 /\ finalWeight > 0
       /\ WeightDeviation(initialWeight, finalWeight) > MAX_WEIGHT_DEVIATION_PCT * 100
    THEN [compliant |-> FALSE, reason |-> ReasonWeight]
    ELSE verdict

\* The weight check against the threshold without its x100 scaling.
WeightAuditUnscaled(verdict, initialWeight, finalWeight) ==
    IF /\ initialWeight > 0 /\ finalWeight > 0
       /\ verdict.compliant
       /\ WeightDeviation(initialWeight, finalWeight) > MAX_WEIGHT_DEVIATION_PCT
    THEN [compliant |-> FALSE, reason |-> ReasonWeight]
    ELSE verdict

\* AUDITORIA 2, entered with the verdict so far.
WeightAudit(verdict, initialWeight, finalWeight) ==
    IF /\ initialWeight > 0 /\ finalWeight > 0
       /\ verdict.compliant
       /\ WeightDeviation(initialWeight, finalWeight) > MAX_WEIGHT_DEVIATION_PCT * 100
    THEN [compliant |-> FALSE, reason |-> ReasonWeight]
    ELSE verdict

\* The dry-matter check with an inclusive bound.
DryMatterAuditInclusive(verdict, finalDryMatterPct_Input) ==
    IF /\ verdict.compliant
       /\ finalDryMatterPct_Input > 0
       /\ finalDryMatterPct_Input <= MIN_DRY_MATTER_PCT
    THEN [compliant |-> FALSE, reason |-> ReasonDryMatter]
    ELSE verdict

\* AUDITORIA 3, entered with the verdict so far.
DryMatterAudit(verdict, finalDryMatterPct_Input) ==
    IF /\ verdict.compliant
       /\ finalDryMatterPct_Input > 0
       /\ finalDryMatterPct_Input < MIN_DRY_MATTER_PCT
    THEN [compliant |-> FALSE, reason |-> ReasonDryMatter]
    ELSE verdict

\* The arithmetic of AUDITORIA 2 leaves the word: the two multiplications of
\* the deviation, and the scaling of the threshold when it is evaluated.
EvaluatePanics(batch, avgTemperatureC_Input, finalWeightReceived_Input) ==
    LET avgTemp == ResolvedTemp(batch, avgTemperatureC_Input)
        initialWeight == batch.initialWeight
        finalWeight == ResolvedFinalWeight(batch, finalWeightReceived_Input)
        difference == Difference(initialWeight, finalWeight)
    IN  /\ initialWeight > 0 /\ finalWeight > 0
        /\ \/ MulOverflows(difference, 100)
           \/ MulOverflows(difference * 100, 100)
           \/ /\ TemperatureAudit(avgTemp).compliant
              /\ MulOverflows(MAX_WEIGHT_DEVIATION_PCT, 100)

\* The verdict evaluateBatch reaches for a batch and its three inputs.
Verdict(batch, avgTemperatureC_Input, finalWeightReceived_Input, finalDryMatterPct_Input) ==
    LET avgTemp == ResolvedTemp(batch, avgTemperatureC_Input)
        initialWeight == batch.initialWeight
        finalWeight == ResolvedFinalWeight(batch, finalWeightReceived_Input)
    IN  DryMatterAudit(WeightAudit(TemperatureAudit(avgTemp), initialWeight, finalWeight),
                       finalDryMatterPct_Input)

\* The body of evaluateBatch on the storage `store`: the audit is written to
\* the batch and the event emitted, or the transaction panics.  It is
\* called by the evaluateBatch transaction and by updateReceptionData.
EvaluateBody(call, store, ts, loteId, tIn, wIn, dIn) ==
    LET batch == store[loteId]
        v == Verdict(batch, tIn, wIn, dIn)
    IN  IF EvaluatePanics(batch, tIn, wIn)
        THEN Reverted(call, Panic)
        ELSE /\ batches' = [store EXCEPT ![loteId].audit =
                                AuditResult(v.compliant, v.reason, ts)]
             /\ tx' = Success(call, <<BatchAuditCompleted(loteId, v.compliant, v.reason)>>)
             /\ UNCHANGED <<owner, thresholdVars>>

\* ------------------------------------------------------------------------
\* Transactions
\* ------------------------------------------------------------------------
\* 5. registerBatchInitialData (carga.html)
registerBatchInitialData(sender, ts, loteId, variety, initialWeight) ==
    /\ InBlock(ts)
    /\ IF BatchExists(loteId)
       THEN Reverted(RegisterCall(sender, loteId, variety, initialWeight), DuplicateLot)
       ELSE /\ batches' = [batches EXCEPT ![loteId] =
                   [loteId |-> loteId, variety |-> variety, registeredBy |-> sender,
                    initialWeight |-> initialWeight, finalWeightReceived |-> 0,
                    avgTemperature |-> 0,
                    audit |-> AuditResult(FALSE, ReasonPending, ts)]]
            /\ tx' = Success(RegisterCall(sender, loteId, variety, initialWeight),
                             <<BatchRegistered(loteId, sender)>>)
            /\ UNCHANGED <<owner, thresholdVars>>

\* updateTransportData (registro_transporte.html)
\* updateTransportData writing the lot's measurements anew.
updateTransportDataOverwrite(ts, loteId, avgTemperature) ==
    /\ InBlock(ts)
    /\ IF ~BatchExists(loteId)
       THEN Reverted(TransportCall(loteId, avgTemperature), LotNotFound)
       ELSE /\ batches' = [batches EXCEPT ![loteId].avgTemperature = avgTemperature,
                                          ![loteId].finalWeightReceived = 0]
            /\ tx' = Success(TransportCall(loteId, avgTemperature), <<>>)
            /\ UNCHANGED <<owner, thresholdVars>>

updateTransportData(ts, loteId, avgTemperature) ==
    /\ InBlock(ts)
    /\ IF ~BatchExists(loteId)
       THEN Reverted(TransportCall(loteId, avgTemperature), LotNotFound)
       ELSE /\ batches' = [batches EXCEPT ![loteId].avgTemperature = avgTemperature]
            /\ tx' = Success(TransportCall(loteId, avgTemperature), <<>>)
            /\ UNCHANGED <<owner, thresholdVars>>

\* The reception stored without the audit it is to trigger.
updateReceptionDataUnaudited(ts, loteId, finalWeightReceived) ==
    /\ InBlock(ts)
    /\ IF ~BatchExists(loteId)
       THEN Reverted(ReceptionCall(loteId, finalWeightReceived), LotNotFound)
       ELSE /\ batches' = [batches EXCEPT ![loteId].finalWeightReceived = finalWeightReceived]
            /\ tx' = Success(ReceptionCall(loteId, finalWeightReceived), <<>>)
            /\ UNCHANGED <<owner, thresholdVars>>

\* updateReceptionData auditing the stored values before it stores the weight.
updateReceptionDataAuditFirst(ts, loteId, finalWeightReceived) ==
    /\ InBlock(ts)
    /\ IF ~BatchExists(loteId)
       THEN Reverted(ReceptionCall(loteId, finalWeightReceived), LotNotFound)
       ELSE LET v == Verdict(batches[loteId], 0, 0, 0)
            IN  IF EvaluatePanics(batches[loteId], 0, 0)
                THEN Reverted(ReceptionCall(loteId, finalWeightReceived), Panic)
                ELSE /\ batches' = [batches EXCEPT
                                       ![loteId].audit = AuditResult(v.compliant, v.reason, ts),
                                       ![loteId].finalWeightReceived = finalWeightReceived]
                     /\ tx' = Success(ReceptionCall(loteId, finalWeightReceived),
                                      <<BatchAuditCompleted(loteId, v.compliant, v.reason)>>)
                     /\ UNCHANGED <<owner, thresholdVars>>

\* updateReceptionData (registro_procesamiento.html)
updateReceptionData(ts, loteId, finalWeightReceived) ==
    /\ InBlock(ts)
    /\ IF ~BatchExists(loteId)
       THEN Reverted(ReceptionCall(loteId, finalWeightReceived), LotNotFound)
       ELSE EvaluateBody(ReceptionCall(loteId, finalWeightReceived),
                         [batches EXCEPT ![loteId].finalWeightReceived = finalWeightReceived],
                         ts, loteId, 0, finalWeightReceived, 0)

\* setThresholds without its onlyOwner modifier.
setThresholdsByAnyone(sender, ts, newMaxTemp, newMaxWeightDev, newMinDryMatter) ==
    /\ InBlock(ts)
    /\ MAX_TEMP_TRANSPORT_C' = newMaxTemp
    /\ MAX_WEIGHT_DEVIATION_PCT' = newMaxWeightDev
    /\ MIN_DRY_MATTER_PCT' = newMinDryMatter
    /\ tx' = Success(ThresholdsCall(sender, newMaxTemp, newMaxWeightDev, newMinDryMatter),
                     <<ThresholdsUpdated(sender, newMaxTemp, newMaxWeightDev, newMinDryMatter)>>)
    /\ UNCHANGED <<owner, batches>>

\* setThresholds that leaves the dry-matter minimum as it was.
setThresholdsPartial(sender, ts, newMaxTemp, newMaxWeightDev, newMinDryMatter) ==
    /\ InBlock(ts)
    /\ IF sender # owner
       THEN Reverted(ThresholdsCall(sender, newMaxTemp, newMaxWeightDev, newMinDryMatter),
                     PermissionDenied)
       ELSE /\ MAX_TEMP_TRANSPORT_C' = newMaxTemp
            /\ MAX_WEIGHT_DEVIATION_PCT' = newMaxWeightDev
            /\ MIN_DRY_MATTER_PCT' = MIN_DRY_MATTER_PCT
            /\ tx' = Success(ThresholdsCall(sender, newMaxTemp, newMaxWeightDev, newMinDryMatter),
                             <<ThresholdsUpdated(sender, newMaxTemp, newMaxWeightDev,
                                                 newMinDryMatter)>>)
            /\ UNCHANGED <<owner, batches>>

\* 6. setThresholds (administracion_smart_contracts.html), onlyOwner
setThresholds(sender, ts, newMaxTemp, newMaxWeightDev, newMinDryMatter) ==
    /\ InBlock(ts)
    /\ IF sender # owner
       THEN Reverted(ThresholdsCall(sender, newMaxTemp, newMaxWeightDev, newMinDryMatter),
                     PermissionDenied)
       ELSE /\ MAX_TEMP_TRANSPORT_C' = newMaxTemp
            /\ MAX_WEIGHT_DEVIATION_PCT' = newMaxWeightDev
            /\ MIN_DRY_MATTER_PCT' = newMinDryMatter
            /\ tx' = Success(ThresholdsCall(sender, newMaxTemp, newMaxWeightDev, newMinDryMatter),
                             <<ThresholdsUpdated(sender, newMaxTemp, newMaxWeightDev,
                                                 newMinDryMatter)>>)
            /\ UNCHANGED <<owner, batches>>

\* 7. evaluateBatch (analisis_falla.html)
\* evaluateBatch keeping the temperature and weight it audited on the lot.
evaluateBatchStoringInputs(ts, loteId, tIn, wIn, dIn) ==
    /\ InBlock(ts)
    /\ EvaluateBody(EvaluateCall(loteId, tIn, wIn, dIn),
                    [batches EXCEPT
                       ![loteId].avgTemperature = ResolvedTemp(batches[loteId], tIn),
                       ![loteId].finalWeightReceived =
                           ResolvedFinalWeight(batches[loteId], wIn)],
                    ts, loteId, tIn, wIn, dIn)

evaluateBatch(ts, loteId, tIn, wIn, dIn) ==
    /\ InBlock(ts)
    /\ EvaluateBody(EvaluateCall(loteId, tIn, wIn, dIn), batches, ts, loteId, tIn, wIn, dIn)

\* 8. transferAsset (transaccion_lote.html)
transferAsset(sender, ts, loteId, newOwner, amountUSD) ==
    /\ InBlock(ts)
    /\ IF ~BatchExists(loteId)
       THEN Reverted(TransferCall(sender, loteId, newOwner, amountUSD), LotNotFound)
       ELSE /\ tx' = Success(TransferCall(sender, loteId, newOwner, amountUSD),
                             <<AssetTransfer(loteId, sender, newOwner, amountUSD)>>)
            /\ UNCHANGED <<owner, thresholdVars, batches>>

\* ------------------------------------------------------------------------
\* The contract after its constructor, and its transactions
\* ------------------------------------------------------------------------
Init ==
    /\ owner = Deployer
    /\ MAX_TEMP_TRANSPORT_C = InitialThresholds[1]
    /\ MAX_WEIGHT_DEVIATION_PCT = InitialThresholds[2]
    /\ MIN_DRY_MATTER_PCT = InitialThresholds[3]
    /\ batches = [id \in LotIds |-> EmptyBatch]
    /\ now = 1
    /\ tx = Success(ConstructorCall(Deployer, InitialThresholds), <<>>)
    /\ ServerIdle
    /\ ClientIdle

Register ==
    \E ts \in 1..MaxTime, id \in LotIds : \E r \in Registrations(id) :
        registerBatchInitialData(r[1], ts, id, r[2], r[3]) /\ UNCHANGED <<serverVars, clientVars>>

RecordTransport ==
    \E ts \in 1..MaxTime, id \in LotIds : \E t \in TransportTemps(id) :
        updateTransportData(ts, id, t) /\ UNCHANGED <<serverVars, clientVars>>

RecordReception ==
    \E ts \in 1..MaxTime, id \in LotIds : \E w \in ReceptionWeights(id) :
        updateReceptionData(ts, id, w) /\ UNCHANGED <<serverVars, clientVars>>

UpdateThresholds ==
    \E sender \in Actors, ts \in 1..MaxTime, thr \in NewThresholds :
        setThresholds(sender, ts, thr[1], thr[2], thr[3]) /\ UNCHANGED <<serverVars, clientVars>>

Evaluate ==
    \E ts \in 1..MaxTime, id \in LotIds :
    \E t \in TempInputs(id), w \in WeightInputs(id), d \in DryMatterInputs(id) :
        evaluateBatch(ts, id, t, w, d) /\ UNCHANGED <<serverVars, clientVars>>

Transfer ==
    \E sender \in Actors, ts \in 1..MaxTime, id \in LotIds, to \in Actors, a \in Amounts :
        transferAsset(sender, ts, id, to, a) /\ UNCHANGED <<serverVars, clientVars>>

Next ==
    \/ Register
    \/ RecordTransport
    \/ RecordReception
    \/ UpdateThresholds
    \/ Evaluate
    \/ Transfer

Spec == Init /\ [][Next]_vars

\* ------------------------------------------------------------------------
\* The audit engine on its own: a contract deployed with any of the
\* thresholds, lot L1 registered, transported and received, and then any
\* number of evaluateBatch transactions on it.
\* ------------------------------------------------------------------------
StudyLot == "L1"

ReceivedBatch(initialWeight, finalWeight, avgTemp) ==
    LET b == [loteId |-> StudyLot, variety |-> "Hass", registeredBy |-> "carrier",
              initialWeight |-> initialWeight, finalWeightReceived |-> finalWeight,
              avgTemperature |-> avgTemp, audit |-> AuditResult(FALSE, ReasonPending, 1)]
        v == Verdict(b, 0, finalWeight, 0)
    IN  [b EXCEPT !.audit = AuditResult(v.compliant, v.reason, 1)]

InitEval ==
    /\ owner = Deployer
    /\ \E thr \in EvalThresholds :
          /\ MAX_TEMP_TRANSPORT_C = thr[1]
          /\ MAX_WEIGHT_DEVIATION_PCT = thr[2]
          /\ MIN_DRY_MATTER_PCT = thr[3]
    /\ \E iw \in EvalInitialWeights, fw \in EvalStoredWeights, t \in EvalStoredTemps :
          /\ ~EvaluatePanics([EmptyBatch EXCEPT !.initialWeight = iw], 0, fw)
          /\ batches = [id \in LotIds |->
                          IF id = StudyLot THEN ReceivedBatch(iw, fw, t) ELSE EmptyBatch]
          /\ tx = Success(ReceptionCall(StudyLot, fw),
                          <<BatchAuditCompleted(StudyLot, batches[StudyLot].audit.isCompliant,
                                                batches[StudyLot].audit.reason)>>)
    /\ now = 1
    /\ ServerIdle
    /\ ClientIdle

EvaluateStudyLot ==
    \E ts \in 1..MaxTime, t \in EvalTempInputs, w \in EvalWeightInputs,
       d \in EvalDryMatterInputs :
        evaluateBatch(ts, StudyLot, t, w, d) /\ UNCHANGED <<serverVars, clientVars>>

NextEval == EvaluateStudyLot

SpecEval == InitEval /\ [][NextEval]_vars

\* ------------------------------------------------------------------------
\* Properties
\* ------------------------------------------------------------------------
\* The lot a transaction is about, before and after it.
Lot == batches[tx.call.loteId]

Ran(op) == tx.call.op = op

Done(op) == tx.call.op = op /\ tx.status = "ok"

\* C1: registerBatchInitialData on a lotId that was registered before fails
\* with DuplicateLot and leaves every field of every lot as it was,
\* whatever ran between the two registrations.
C1_DuplicateRegisterRejected ==
    [][(tx'.call.op = "registerBatchInitialData" /\ Registered(tx'.call.loteId))
         => (tx'.status = DuplicateLot /\ tx'.logs = <<>> /\ batches' = batches)]_vars

\* A second registration with other data was rejected after the lot had been audited.
C1_Witness ==
    /\ Ran("registerBatchInitialData") /\ tx.status = DuplicateLot
    /\ Lot.variety # tx.call.variety /\ Lot.registeredBy # tx.call.sender
    /\ Lot.initialWeight # tx.call.initialWeight
    /\ Lot.audit.reason = ReasonCompliant /\ Lot.finalWeightReceived = 96

\* The measurements an evaluateBatch transaction resolved: the input when
\* it is given, the stored value of the lot otherwise.
GivenOrStored(input, stored) == IF input = 0 THEN stored ELSE input

AuditedTemp == GivenOrStored(tx.call.avgTemperatureC_Input, Lot.avgTemperature)

AuditedFinalWeight == GivenOrStored(tx.call.finalWeightReceived_Input, Lot.finalWeightReceived)

AuditedDryMatter == tx.call.finalDryMatterPct_Input

\* The three checks as section 4.4 of the specification words them.
TempExceeded == AuditedTemp > MAX_TEMP_TRANSPORT_C

WeightChecked == Lot.initialWeight > 0 /\ AuditedFinalWeight > 0

\* |initial - final| / initial * 100, cut to two decimals, is above the
\* maximum: in hundredths of a percent it reaches maximum * 100 + 1.
WeightExceeded ==
    /\ WeightChecked
    /\ LET d == IF Lot.initialWeight > AuditedFinalWeight
                THEN Lot.initialWeight - AuditedFinalWeight
                ELSE AuditedFinalWeight - Lot.initialWeight
       IN  d * 10000 >= (MAX_WEIGHT_DEVIATION_PCT * 100 + 1) * Lot.initialWeight

DryMatterInsufficient == AuditedDryMatter > 0 /\ AuditedDryMatter < MIN_DRY_MATTER_PCT

NonCompliantFor(reason) == ~Lot.audit.isCompliant /\ Lot.audit.reason = reason

CompliantResult == Lot.audit.isCompliant /\ Lot.audit.reason = ReasonCompliant

\* C2: short-circuit order: an evaluateBatch whose resolved temperature is
\* above MAX_TEMP_TRANSPORT_C stores the temperature reason, never the
\* weight or the dry-matter reason, whatever the other two checks would say.
C2_TemperatureReasonWins ==
    (Done("evaluateBatch") /\ TempExceeded) => NonCompliantFor(ReasonTemperature)

\* The temperature, the weight deviation and the dry matter all violate their thresholds.
C2_Witness ==
    /\ Done("evaluateBatch") /\ TempExceeded /\ WeightExceeded /\ DryMatterInsufficient
    /\ NonCompliantFor(ReasonTemperature)

\* C3: the temperature bound is exclusive: evaluateBatch stores the
\* temperature reason exactly when the resolved temperature is strictly
\* above MAX_TEMP_TRANSPORT_C, and a temperature equal to it, with the
\* weight and dry-matter checks passing or skipped, gives a compliant lot.
C3_TemperatureBoundExclusive ==
    Done("evaluateBatch") =>
        /\ NonCompliantFor(ReasonTemperature) <=> TempExceeded
        /\ Lot.audit.reason = ReasonTemperature => ~Lot.audit.isCompliant
        /\ (AuditedTemp = MAX_TEMP_TRANSPORT_C /\ ~WeightExceeded /\ ~DryMatterInsufficient)
              => CompliantResult

\* A temperature of 800 was given against a maximum of 800 and the lot is compliant.
C3_Witness ==
    /\ Done("evaluateBatch") /\ tx.call.avgTemperatureC_Input = 800
    /\ MAX_TEMP_TRANSPORT_C = 800 /\ CompliantResult

\* C4: weight check: after a passed temperature check and with both
\* weights above 0, evaluateBatch stores the weight reason exactly when the
\* deviation, cut to two decimals, is strictly above
\* MAX_WEIGHT_DEVIATION_PCT; with a weight of 0 the check is skipped.
C4_WeightDeviationCheck ==
    Done("evaluateBatch") =>
        /\ (~TempExceeded /\ WeightChecked)
              => (NonCompliantFor(ReasonWeight) <=> WeightExceeded)
        /\ ~WeightChecked => Lot.audit.reason # ReasonWeight

\* 12000 against 12601 is 5.0083 percent, 5.00 at two decimals: not above 5.
C4_Witness ==
    /\ Done("evaluateBatch") /\ ~TempExceeded /\ WeightChecked
    /\ Lot.initialWeight = 12000 /\ AuditedFinalWeight = 12601
    /\ MAX_WEIGHT_DEVIATION_PCT = 5 /\ Lot.audit.reason # ReasonWeight

\* C5: dry-matter check: after passed temperature and weight checks and
\* with a dry matter above 0, evaluateBatch stores the dry-matter reason
\* exactly when the input is below MIN_DRY_MATTER_PCT; when none of the
\* three checks fails the lot is compliant with the compliance reason.
C5_DryMatterCheck ==
    Done("evaluateBatch") =>
        /\ (~TempExceeded /\ ~WeightExceeded /\ AuditedDryMatter > 0)
              => (NonCompliantFor(ReasonDryMatter) <=> AuditedDryMatter < MIN_DRY_MATTER_PCT)
        /\ (~TempExceeded /\ ~WeightExceeded /\ ~DryMatterInsufficient) => CompliantResult

\* A dry matter equal to the minimum passed.
C5_Witness ==
    /\ Done("evaluateBatch") /\ ~TempExceeded /\ ~WeightExceeded
    /\ AuditedDryMatter = MIN_DRY_MATTER_PCT /\ AuditedDryMatter > 0 /\ CompliantResult

\* C6: an input of 0 makes evaluateBatch use the stored temperature and the
\* stored final weight (a lot stores no dry matter); a check whose input
\* and stored value are both 0 is skipped and cannot fail the lot.
C6_UnsetUsesStored ==
    Done("evaluateBatch") =>
        /\ (tx.call.avgTemperatureC_Input = 0 /\ Lot.avgTemperature > MAX_TEMP_TRANSPORT_C)
              => NonCompliantFor(ReasonTemperature)
        /\ (tx.call.finalWeightReceived_Input = 0 /\ ~TempExceeded /\ WeightExceeded)
              => NonCompliantFor(ReasonWeight)
        /\ (tx.call.avgTemperatureC_Input = 0 /\ Lot.avgTemperature = 0)
              => Lot.audit.reason # ReasonTemperature
        /\ (tx.call.finalWeightReceived_Input = 0 /\ Lot.finalWeightReceived = 0)
              => Lot.audit.reason # ReasonWeight
        /\ tx.call.finalDryMatterPct_Input = 0 => Lot.audit.reason # ReasonDryMatter
        /\ (/\ tx.call.avgTemperatureC_Input = 0 /\ Lot.avgTemperature = 0
            /\ tx.call.finalWeightReceived_Input = 0 /\ Lot.finalWeightReceived = 0
            /\ tx.call.finalDryMatterPct_Input = 0) => CompliantResult

\* No final weight was given and the stored one failed the lot.
C6_Witness ==
    /\ Done("evaluateBatch") /\ tx.call.finalWeightReceived_Input = 0
    /\ tx.call.avgTemperatureC_Input = 0 /\ Lot.avgTemperature = 750
    /\ Lot.finalWeightReceived = 90 /\ NonCompliantFor(ReasonWeight)

\* The verdict section 4.4 of the specification gives for a temperature,
\* the two weights and a dry matter, 0 standing for a value that is not set.
SpecVerdict(temp, initialWeight, finalWeight, dryMatter) ==
    LET d == IF initialWeight > finalWeight THEN initialWeight - finalWeight
             ELSE finalWeight - initialWeight
    IN  IF temp > MAX_TEMP_TRANSPORT_C
        THEN [compliant |-> FALSE, reason |-> ReasonTemperature]
        ELSE IF /\ initialWeight > 0 /\ finalWeight > 0
                /\ d * 10000 >= (MAX_WEIGHT_DEVIATION_PCT * 100 + 1) * initialWeight
        THEN [compliant |-> FALSE, reason |-> ReasonWeight]
        ELSE IF dryMatter > 0 /\ dryMatter < MIN_DRY_MATTER_PCT
        THEN [compliant |-> FALSE, reason |-> ReasonDryMatter]
        ELSE [compliant |-> TRUE, reason |-> ReasonCompliant]

\* The audit of lot id is the verdict for its stored temperature and
\* weights, with no dry matter, taken in the block of the latest transaction.
AuditedFromStored(id) ==
    LET b == batches[id]
        v == SpecVerdict(b.avgTemperature, b.initialWeight, b.finalWeightReceived, 0)
    IN  b.audit = AuditResult(v.compliant, v.reason, now)

\* What a completed updateReceptionData leaves behind.
ReceptionStoredAndAudited ==
    /\ Lot.finalWeightReceived = tx.call.finalWeightReceived
    /\ AuditedFromStored(tx.call.loteId)

\* C7: updateReceptionData on a registered lot, when it completes, has
\* stored the final weight and replaced the audit by the verdict for
\* (stored temperature, that weight, no dry matter) under the current
\* thresholds, touching nothing else; on a lot that was never registered
\* it fails with LotNotFound and changes nothing.
C7_ReceptionStoresAndAudits ==
    [][tx'.call.op = "updateReceptionData" =>
         IF Registered(tx'.call.loteId)
         THEN /\ tx'.status # LotNotFound
              /\ tx'.status = "ok" =>
                    /\ ReceptionStoredAndAudited'
                    /\ \E a \in {batches'[tx'.call.loteId].audit} :
                          batches' = [batches EXCEPT
                                        ![tx'.call.loteId].finalWeightReceived =
                                            tx'.call.finalWeightReceived,
                                        ![tx'.call.loteId].audit = a]
              /\ tx'.status # "ok" => UNCHANGED batches
              /\ UNCHANGED <<owner, thresholdVars>>
         ELSE /\ tx'.status = LotNotFound
              /\ UNCHANGED <<owner, thresholdVars, batches>>]_vars

\* C8: updateTransportData on a registered lot changes the stored
\* temperature of that lot and nothing else (audit, weights, provenance,
\* other lots, thresholds); on a lot that was never registered it fails
\* with LotNotFound and changes nothing.
C8_TransportOnlyTemperature ==
    [][tx'.call.op = "updateTransportData" =>
         IF Registered(tx'.call.loteId)
         THEN /\ tx'.status = "ok"
              /\ batches' = [batches EXCEPT
                                ![tx'.call.loteId].avgTemperature = tx'.call.avgTemperature]
              /\ UNCHANGED <<owner, thresholdVars>>
         ELSE /\ tx'.status = LotNotFound
              /\ UNCHANGED <<owner, thresholdVars, batches>>]_vars

\* C9 as the specification states it: an operation that changes the
\* stored temperature or final weight of a lot re-evaluates its audit in
\* the same operation, so the stored verdict is always the one of the
\* stored measurements.
C9_AuditFollowsEveryChange ==
    [][\A id \in LotIds :
         (\/ batches'[id].avgTemperature # batches[id].avgTemperature
          \/ batches'[id].finalWeightReceived # batches[id].finalWeightReceived)
            => AuditedFromStored(id)']_vars

\* C9 (amended): an operation that changes the stored final weight of a
\* lot re-evaluates its audit, in that same operation, for the stored
\* temperature and weights; an operation that changes only the stored
\* temperature leaves the audit as it was.
C9_AuditFollowsReception ==
    [][\A id \in LotIds :
         /\ batches'[id].finalWeightReceived # batches[id].finalWeightReceived
              => AuditedFromStored(id)'
         /\ (/\ batches'[id].avgTemperature # batches[id].avgTemperature
             /\ batches'[id].finalWeightReceived = batches[id].finalWeightReceived)
              => batches'[id].audit = batches[id].audit]_vars

\* A reception changed the stored weight of a lot whose temperature had
\* been recorded above the maximum, and the audit tells so.
C9_Witness ==
    /\ Done("updateReceptionData") /\ Lot.finalWeightReceived = 96
    /\ Lot.avgTemperature = 810 /\ NonCompliantFor(ReasonTemperature)
    /\ Lot.audit.timestamp = 2

\* C10: setThresholds by anyone but the owner fails with PermissionDenied,
\* changes no threshold and no lot and emits no event; by the owner it
\* replaces the three thresholds and emits exactly one ThresholdsUpdated
\* event with the sender and the new values.
C10_ThresholdUpdateOwnerOnly ==
    [][tx'.call.op = "setThresholds" =>
         IF tx'.call.sender # owner
         THEN /\ tx'.status = PermissionDenied
              /\ tx'.logs = <<>>
              /\ UNCHANGED <<owner, thresholdVars, batches>>
         ELSE /\ tx'.status = "ok"
              /\ MAX_TEMP_TRANSPORT_C' = tx'.call.newMaxTemp
              /\ MAX_WEIGHT_DEVIATION_PCT' = tx'.call.newMaxWeightDev
              /\ MIN_DRY_MATTER_PCT' = tx'.call.newMinDryMatter
              /\ tx'.logs = <<ThresholdsUpdated(tx'.call.sender, tx'.call.newMaxTemp,
                                                tx'.call.newMaxWeightDev,
                                                tx'.call.newMinDryMatter)>>
              /\ UNCHANGED <<owner, batches>>]_vars

\* After an update by the owner, an update by another sender was denied.
C10_Witness ==
    /\ Ran("setThresholds") /\ tx.status = PermissionDenied /\ tx.call.sender # owner
    /\ MAX_TEMP_TRANSPORT_C = 750 /\ tx.call.newMaxTemp = 800
    /\ Registered("L1")

\* The three thresholds as one triple.
Thresholds == <<MAX_TEMP_TRANSPORT_C, MAX_WEIGHT_DEVIATION_PCT, MIN_DRY_MATTER_PCT>>

\* C11: the three thresholds are always the triple of the constructor or
\* the triple of one single update, never a mix of two; they change only
\* in a completed setThresholds of the owner, which sets them to its
\* arguments, and the owner never changes.
C11_ThresholdsReplacedWhole ==
    /\ [](Thresholds \in {InitialThresholds} \cup NewThresholds /\ owner = Deployer)
    /\ [][/\ owner' = owner
          /\ Thresholds' # Thresholds =>
                /\ tx'.call.op = "setThresholds" /\ tx'.status = "ok"
                /\ tx'.call.sender = owner
                /\ Thresholds' = <<tx'.call.newMaxTemp, tx'.call.newMaxWeightDev,
                                   tx'.call.newMinDryMatter>>]_vars

\* After an update to 750/10/25 a lot was audited and transferred, and
\* the thresholds are still that triple.
C11_Witness ==
    /\ Done("transferAsset") /\ Thresholds = <<750, 10, 25>>
    /\ Lot.audit.reason \in {ReasonCompliant, ReasonWeight}

\* C12: transferAsset on a registered lot succeeds whatever its audit
\* says, emits one AssetTransfer event and changes no lot and no
\* threshold; on a lot that was never registered it fails with
\* LotNotFound and emits nothing.
C12_TransferUngatedAndFramed ==
    [][tx'.call.op = "transferAsset" =>
         IF Registered(tx'.call.loteId)
         THEN /\ tx'.status = "ok"
              /\ tx'.logs = <<AssetTransfer(tx'.call.loteId, tx'.call.sender,
                                            tx'.call.newOwner, tx'.call.amountUSD)>>
              /\ UNCHANGED <<owner, thresholdVars, batches>>
         ELSE /\ tx'.status = LotNotFound
              /\ tx'.logs = <<>>
              /\ UNCHANGED <<owner, thresholdVars, batches>>]_vars

\* The six state-changing operations of the specification.
StateChangingOps ==
    {"registerBatchInitialData", "updateTransportData", "updateReceptionData",
     "evaluateBatch", "setThresholds", "transferAsset"}

\* C13: every completed state-changing transaction (register, transport,
\* reception, evaluate, threshold update, transfer) has emitted at least
\* one event, so the events are never fewer than the completed calls.
C13_EveryCompletedCallEmits ==
    (tx.call.op \in StateChangingOps /\ tx.status = "ok") => Len(tx.logs) >= 1

\* C14: evaluateBatch never raises: for any lot, registered or not, and
\* any inputs and stored values of the word, the largest weights included,
\* the transaction completes with an AuditResult, and it leaves the
\* thresholds as they were.
C14_EvaluateNeverRaises ==
    [][tx'.call.op = "evaluateBatch" =>
         /\ tx'.status = "ok"
         /\ batches'[tx'.call.loteId].audit.timestamp = now'
         /\ Thresholds' = Thresholds]_vars

\* The verdict and reason stored for the lot of the latest transaction.
StoredVerdict == [compliant |-> Lot.audit.isCompliant, reason |-> Lot.audit.reason]

\* C15: the AuditResult of a completed evaluateBatch is a function of the
\* lot's data, the thresholds and the three inputs, and that of a completed
\* updateReceptionData a function of the lot's data, the thresholds and
\* the weight; and repeating a completed evaluateBatch or
\* updateReceptionData with the same arguments right after it, the lot
\* untouched in between, leaves verdict and reason as they were.
C15_EvaluateDeterministicRetrySafe ==
    /\ [](/\ Done("evaluateBatch") =>
                StoredVerdict = SpecVerdict(AuditedTemp, Lot.initialWeight,
                                            AuditedFinalWeight, AuditedDryMatter)
          /\ Done("updateReceptionData") =>
                StoredVerdict = SpecVerdict(Lot.avgTemperature, Lot.initialWeight,
                                            tx.call.finalWeightReceived, 0))
    /\ [][(/\ tx.call.op \in {"evaluateBatch", "updateReceptionData"}
           /\ tx'.call.op = tx.call.op
           /\ tx'.call = tx.call
           /\ tx.status = "ok" /\ tx'.status = "ok")
          => StoredVerdict' = StoredVerdict]_vars

\* A reception of 96 was followed by an evaluation with the weight 110
\* given, which fails on the weight; the stored weight is still 96.
C15_Witness ==
    /\ Done("evaluateBatch") /\ tx.call.finalWeightReceived_Input = 110
    /\ Lot.initialWeight = 100 /\ Lot.finalWeightReceived = 96
    /\ NonCompliantFor(ReasonWeight)

\* C16: two completed evaluations of a lot of initial weight w > 0, one
\* right after the other, with the same temperature and dry matter inputs
\* and the final weights w - d and w + d (0 < d < w), compute the same
\* deviation and store the same verdict and reason.
C16_WeightDeviationSymmetric ==
    [][(/\ tx.call.op = "evaluateBatch" /\ tx'.call.op = "evaluateBatch"
        /\ tx.status = "ok" /\ tx'.status = "ok"
        /\ tx'.call.loteId = tx.call.loteId
        /\ tx'.call.avgTemperatureC_Input = tx.call.avgTemperatureC_Input
        /\ tx'.call.finalDryMatterPct_Input = tx.call.finalDryMatterPct_Input
        /\ Lot.initialWeight > 0
        /\ tx.call.finalWeightReceived_Input > 0
        /\ tx'.call.finalWeightReceived_Input > 0
        /\ tx.call.finalWeightReceived_Input # tx'.call.finalWeightReceived_Input
        /\ tx.call.finalWeightReceived_Input + tx'.call.finalWeightReceived_Input
              = 2 * Lot.initialWeight)
       => /\ WeightDeviation(Lot.initialWeight, tx.call.finalWeightReceived_Input)
               = WeightDeviation(Lot.initialWeight, tx'.call.finalWeightReceived_Input)
          /\ StoredVerdict' = StoredVerdict]_vars

\* The lot of initial weight 100 evaluated with the weight 105, five
\* percent above, under a limit of five percent: compliant, as with 95.
C16_Witness ==
    /\ Done("evaluateBatch") /\ Lot.initialWeight = 100
    /\ tx.call.finalWeightReceived_Input = 105
    /\ tx.call.avgTemperatureC_Input = 750 /\ tx.call.finalDryMatterPct_Input = 0
    /\ MAX_WEIGHT_DEVIATION_PCT = 5 /\ MAX_TEMP_TRANSPORT_C = 800
    /\ CompliantResult

\* The deviation of the received weight w from the lot's initial weight, in
\* hundredths of a percent, is above the limit.
ReceivedWeightExceeds(w) ==
    LET iw == Lot.initialWeight
        d == IF iw > w THEN iw - w ELSE w - iw
    IN  d * 10000 >= (MAX_WEIGHT_DEVIATION_PCT * 100 + 1) * iw

\* C17: a completed updateReceptionData on a registered lot with a positive
\* initial weight and a stored temperature at or below the limit leaves the
\* lot compliant when the deviation of the received weight is at or below
\* the limit, and non-compliant for the weight when it is above, whatever
\* the lot's audit said before: with 800/5/21, initial weight 100 and
\* temperature 750, a reception of 96 makes it compliant and a reception
\* of 90 right after turns it non-compliant for the weight.
C17_EndToEndTrace ==
    /\ []((/\ Done("updateReceptionData") /\ Registered(tx.call.loteId)
           /\ Lot.initialWeight > 0 /\ tx.call.finalWeightReceived > 0
           /\ Lot.avgTemperature <= MAX_TEMP_TRANSPORT_C)
          => IF ReceivedWeightExceeds(tx.call.finalWeightReceived)
             THEN NonCompliantFor(ReasonWeight)
             ELSE CompliantResult)
    /\ [][(/\ Done("updateReceptionData") /\ tx.call.finalWeightReceived = 96
           /\ Lot.initialWeight = 100 /\ Lot.avgTemperature = 750
           /\ Thresholds = <<800, 5, 21>>
           /\ tx'.call.op = "updateReceptionData"
           /\ tx'.call.loteId = tx.call.loteId
           /\ tx'.call.finalWeightReceived = 90)
          => /\ CompliantResult
             /\ tx'.status = "ok"
             /\ ~batches'[tx.call.loteId].audit.isCompliant
             /\ batches'[tx.call.loteId].audit.reason = ReasonWeight]_vars

\* Lot of 100 registered, carried at 750 and received at 90 under 800/5/21.
C17_Witness ==
    /\ Done("updateReceptionData") /\ tx.call.finalWeightReceived = 90
    /\ Registered(tx.call.loteId)
    /\ Lot.initialWeight = 100 /\ Lot.avgTemperature = 750
    /\ Thresholds = <<800, 5, 21>>
    /\ NonCompliantFor(ReasonWeight)

\* ------------------------------------------------------------------------
\* server.js, POST /api/upload: the classification of an uploaded CSV file,
\* and the same loop as test-csv-parsing.js runs it.  A file is the list of
\* its lines, a line the list of its comma-separated cells.
\* ------------------------------------------------------------------------
\* Data lines of an uploaded file, at most.
MaxRows == 3

\* req.body.userId; "" is an absent one.
UserIds == {"", "u1"}

\* A header line with the status column, in lower case, and one without it.
Headers == {<<"LOTE_ID", "calidad_status">>, <<"LOTE_ID", "PESO_KG">>}

\* Data lines: the seven statuses the handler names in several spellings,
\* one it does not name, a line short of a column, a line of empty cells
\* and an empty line.
Rows ==
    {<<"F1", "ok">>, <<"F2", "Conforme">>, <<"F3", " ALERTA ">>, <<"F4", "hallazgo">>,
     <<"F5", "Descarte">>, <<"F6", "NO_ADMITIDA">>, <<"F7", "rechazado">>,
     <<"F8", "MADURA">>, <<"F9">>, <<"", " ">>, <<"">>}

SeqsUpTo(S, n) == UNION {[1..k -> S] : k \in 0..n}

\* The empty file, and a header line followed by up to MaxRows data lines.
Files == {<<>>} \cup {<<h>> \o rows : h \in Headers, rows \in SeqsUpTo(Rows, MaxRows)}

\* Requests: with a readable file, with a file that cannot be read, and
\* without a file.
Requests ==
    [route : {"POST /api/upload"}, hasFile : {TRUE}, readable : {TRUE},
     lines : Files, userId : UserIds]
    \cup {[route |-> "POST /api/upload", hasFile |-> TRUE, readable |-> FALSE,
           lines |-> <<>>, userId |-> "u1"],
          NoRequest}

MessageNoFile == "No se recibio ningun archivo"

MessageSaveFailed == "Error al guardar el historial"

MessageUploaded == "Archivo cargado exitosamente"

\* String.prototype.toUpperCase on the strings of Headers and Rows.
toUpperCase(s) ==
    CASE s = "ok" -> "OK"
      [] s = "Conforme" -> "CONFORME"
      [] s = "hallazgo" -> "HALLAZGO"
      [] s = "Descarte" -> "DESCARTE"
      [] s = "rechazado" -> "RECHAZADO"
      [] s = "calidad_status" -> "CALIDAD_STATUS"
      [] OTHER -> s

\* String.prototype.trim on the strings of Headers and Rows.
trim(s) ==
    CASE s = " ALERTA " -> "ALERTA"
      [] s = " " -> ""
      [] OTHER -> s

\* line.trim() === '' : a line without a comma whose text is blank.
IsBlankLine(line) == Len(line) = 1 /\ trim(line[1]) = ""

\* csvContent.split('\n').filter(line => line.trim() !== '')
NonBlankLines(raw) == SelectSeq(raw, LAMBDA line : ~IsBlankLine(line))

\* line.split(',').map(v => v.trim())
TrimCells(line) == [i \in 1..Len(line) |-> trim(line[i])]

\* headers.findIndex(h => h.toUpperCase() === 'CALIDAD_STATUS'), counted
\* from 1, and 0 where findIndex gives -1.
StatusIndex(headers) ==
    LET hits == {i \in 1..Len(headers) : toUpperCase(headers[i]) = "CALIDAD_STATUS"}
    IN  IF hits = {} THEN 0 ELSE CHOOSE i \in hits : \A j \in hits : i <= j

\* values.length >= headers.length && values.join('').length > 0
IsCounted(values, headers) ==
    /\ Len(values) >= Len(headers)
    /\ \E i \in 1..Len(values) : values[i] # ""

\* The status read without toUpperCase.
StatusOfVerbatim(values, statusIndex) ==
    IF statusIndex > 0 THEN trim(values[statusIndex]) ELSE "OK"

\* statusIndex >= 0 ? values[statusIndex].trim().toUpperCase() : 'OK'
StatusOf(values, statusIndex) ==
    IF statusIndex > 0 THEN toUpperCase(trim(values[statusIndex])) ELSE "OK"

ZeroCounts == [total |-> 0, conformes |-> 0, hallazgos |-> 0, noAdmitidas |-> 0]

\* The defaults without frutasConformes = 1.
DefaultCountsUncounted == [total |-> 1, conformes |-> 0, hallazgos |-> 0, noAdmitidas |-> 0]

\* totalFrutas = 1; frutasConformes = 1: an empty file and a parse error.
DefaultCounts == [total |-> 1, conformes |-> 1, hallazgos |-> 0, noAdmitidas |-> 0]

\* The counting without the final else: an unrecognised status is counted
\* in the total only.
CountFruitRecognisedOnly(c, status) ==
    IF status = "OK" \/ status = "CONFORME"
    THEN [c EXCEPT !.total = @ + 1, !.conformes = @ + 1]
    ELSE IF status = "ALERTA" \/ status = "HALLAZGO"
    THEN [c EXCEPT !.total = @ + 1, !.hallazgos = @ + 1]
    ELSE IF status = "DESCARTE" \/ status = "NO_ADMITIDA" \/ status = "RECHAZADO"
    THEN [c EXCEPT !.total = @ + 1, !.noAdmitidas = @ + 1]
    ELSE [c EXCEPT !.total = @ + 1]

\* totalFrutas++ and the if-chain on the status.
CountFruit(c, status) ==
    IF status = "OK" \/ status = "CONFORME"
    THEN [c EXCEPT !.total = @ + 1, !.conformes = @ + 1]
    ELSE IF status = "ALERTA" \/ status = "HALLAZGO"
    THEN [c EXCEPT !.total = @ + 1, !.hallazgos = @ + 1]
    ELSE IF status = "DESCARTE" \/ status = "NO_ADMITIDA" \/ status = "RECHAZADO"
    THEN [c EXCEPT !.total = @ + 1, !.noAdmitidas = @ + 1]
    ELSE [c EXCEPT !.total = @ + 1, !.conformes = @ + 1]

\* for (let i = 1; i < lines.length; i++), from line i with the counts c.
RECURSIVE ClassifyFrom(_, _, _, _, _)
ClassifyFrom(lines, headers, statusIndex, i, c) ==
    IF i > Len(lines) THEN c
    ELSE LET values == TrimCells(lines[i])
         IN  ClassifyFrom(lines, headers, statusIndex, i + 1,
                          IF IsCounted(values, headers)
                          THEN CountFruit(c, StatusOf(values, statusIndex))
                          ELSE c)

\* The counts of the try block: the loop, then the defaults when it counted
\* nothing.
Analyse(raw) ==
    LET lines == NonBlankLines(raw)
        headers == TrimCells(lines[1])
        c == IF Len(lines) > 1
             THEN ClassifyFrom(lines, headers, StatusIndex(headers), 2, ZeroCounts)
             ELSE ZeroCounts
    IN  IF c.total = 0 THEN DefaultCounts ELSE c

\* The percentage cut to two decimals instead of rounded.
toFixed2Truncated(count, total) == (count * 10000) \div total

\* parseFloat((count / total * 100).toFixed(2)), in hundredths of a percent:
\* toFixed rounds to the nearest hundredth, and a half upwards.
toFixed2(count, total) == (2 * count * 10000 + total) \div (2 * total)

\* The defects pushed in the try block; none when the file cannot be read.
Defectos(c) ==
    (IF c.noAdmitidas > 0
     THEN <<[nombre |-> "Fruta No Admitida", cantidad |-> c.noAdmitidas,
             severidad |-> "No Admitida",
             porcentaje |-> toFixed2(c.noAdmitidas, c.total)]>>
     ELSE <<>>)
    \o
    (IF c.hallazgos > 0
     THEN <<[nombre |-> "Fruta con Alerta", cantidad |-> c.hallazgos,
             severidad |-> "Hallazgo",
             porcentaje |-> toFixed2(c.hallazgos, c.total)]>>
     ELSE <<>>)

\* uploadRecord.calidadFruta
CalidadFruta(c, defectos) ==
    [total |-> c.total,
     conformes |-> c.conformes,
     hallazgosMenores |-> c.hallazgos,
     noAdmitidas |-> c.noAdmitidas,
     porcentajeNoAdmitida |-> toFixed2(c.noAdmitidas, c.total),
     porcentajeConformes |-> toFixed2(c.conformes, c.total),
     porcentajeHallazgos |-> toFixed2(c.hallazgos, c.total),
     defectos |-> defectos]

\* uploadRecord, without the fields that name the file and the transaction.
UploadRecord(id, date, userId, c, defectos) ==
    [id |-> id,
     date |-> date,
     status |-> "Completada",
     processedBy |-> IF userId = "" THEN "anonymous" ELSE userId,
     calidadFruta |-> CalidadFruta(c, defectos)]

\* The moments the server's clock passes through, as <<year, month, day,
\* hour>>: two on one day, one on the next day, one on the first day of the
\* year after, and later ones a day apart.
Instant(k) ==
    CASE k = 1 -> <<2024, 3, 5, 9>>
      [] k = 2 -> <<2024, 3, 5, 17>>
      [] k = 3 -> <<2024, 3, 6, 9>>
      [] k = 4 -> <<2025, 3, 5, 9>>
      [] OTHER -> <<2025, 3, k + 2, 9>>

\* readHistory: the records of the file; none when the file does not exist
\* and none when it cannot be read or parsed (readOk false).
readHistory(readOk) == IF readOk THEN history ELSE <<>>

\* The handler of POST /api/upload on a request: readOk tells whether
\* readHistory could read the file, saved whether saveHistory could write
\* it.  The record's id is Date.now() and a random suffix, an id no other
\* record has: here the moment of the clock, which has passed on.
postUpload(request, readOk, saved) ==
    /\ req' = request
    /\ IF ~request.hasFile
       THEN /\ res' = [status |-> 400, success |-> FALSE, message |-> MessageNoFile]
            /\ UNCHANGED <<history, clock>>
       ELSE LET c == IF request.readable THEN Analyse(request.lines) ELSE DefaultCounts
                defectos == IF request.readable THEN Defectos(c) ELSE <<>>
                uploadRecord == UploadRecord(clock, Instant(clock), request.userId,
                                             c, defectos)
            IN  /\ clock' = clock + 1
                /\ IF saved
                   THEN /\ history' = Append(readHistory(readOk), uploadRecord)
                        /\ res' = [status |-> 200, success |-> TRUE,
                                   message |-> MessageUploaded, data |-> uploadRecord]
                   ELSE /\ res' = [status |-> 500, success |-> FALSE,
                                   message |-> MessageSaveFailed]
                        /\ UNCHANGED history
    /\ UNCHANGED printed

\* test-csv-parsing.js counts a line that has enough cells, blank or not.
TestIsCounted(values, headers) == Len(values) >= Len(headers)

\* test-csv-parsing.js: its if-chain names OK, ALERTA, HALLAZGO, DESCARTE
\* and NO_ADMITIDA.
TestCountFruit(c, status) ==
    IF status = "OK"
    THEN [c EXCEPT !.total = @ + 1, !.conformes = @ + 1]
    ELSE IF status = "ALERTA" \/ status = "HALLAZGO"
    THEN [c EXCEPT !.total = @ + 1, !.hallazgos = @ + 1]
    ELSE IF status = "DESCARTE" \/ status = "NO_ADMITIDA"
    THEN [c EXCEPT !.total = @ + 1, !.noAdmitidas = @ + 1]
    ELSE [c EXCEPT !.total = @ + 1, !.conformes = @ + 1]

RECURSIVE TestClassifyFrom(_, _, _, _, _)
TestClassifyFrom(lines, headers, statusIndex, i, c) ==
    IF i > Len(lines) THEN c
    ELSE TestClassifyFrom(lines, headers, statusIndex, i + 1,
                          IF TestIsCounted(lines[i], headers)
                          THEN TestCountFruit(c, StatusOf(lines[i], statusIndex))
                          ELSE c)

\* test-csv-parsing.js run on the file of req: it prints its totals when
\* the file has more than a header.
testCsvParsing ==
    /\ ~printed.ran /\ req.hasFile /\ req.readable
    /\ LET lines == NonBlankLines(req.lines)
           headers == TrimCells(lines[1])
           c == IF Len(lines) > 1
                THEN TestClassifyFrom(lines, headers, StatusIndex(headers), 2, ZeroCounts)
                ELSE ZeroCounts
       IN  printed' = [ran |-> TRUE, total |-> c.total, conformes |-> c.conformes,
                       hallazgos |-> c.hallazgos, noAdmitidas |-> c.noAdmitidas]
    /\ UNCHANGED <<req, res, history, clock>>

\* A deployed contract no one calls, and a request arriving at the server.
InitUpload ==
    /\ owner = Deployer
    /\ MAX_TEMP_TRANSPORT_C = InitialThresholds[1]
    /\ MAX_WEIGHT_DEVIATION_PCT = InitialThresholds[2]
    /\ MIN_DRY_MATTER_PCT = InitialThresholds[3]
    /\ batches = [id \in LotIds |-> EmptyBatch]
    /\ now = 1
    /\ tx = Success(ConstructorCall(Deployer, InitialThresholds), <<>>)
    /\ req \in Requests
    /\ res = NoResponse
    /\ history = <<>>
    /\ printed = NoOutput
    /\ clock = 1
    /\ ClientIdle

Upload ==
    /\ res = NoResponse
    /\ \E readOk, saved \in BOOLEAN : postUpload(req, readOk, saved)
    /\ UNCHANGED <<contractVars, clientVars>>

TestCsvParsing == testCsvParsing /\ UNCHANGED <<contractVars, clientVars>>

NextUpload ==
    \/ Upload
    \/ TestCsvParsing

SpecUpload == InitUpload /\ [][NextUpload]_vars

\* ------------------------------------------------------------------------
\* Properties of the classifier
\* ------------------------------------------------------------------------
\* The breakdown of the response, and the lines and header the handler read.
Breakdown == res.data.calidadFruta

ReadLines == NonBlankLines(req.lines)

ReadHeaders == TrimCells(ReadLines[1])

\* The data lines of the request that are unit records.
UnitLines ==
    IF Len(ReadLines) > 1
    THEN {i \in 2..Len(ReadLines) : IsCounted(TrimCells(ReadLines[i]), ReadHeaders)}
    ELSE {}

\* C18: in every breakdown the classifier produces, that of an empty file
\* and of a file that cannot be read included, the four counts are
\* non-negative and conformant + minor findings + not admitted = total;
\* the total is the number of unit records (1 when there is none), so each
\* record has raised exactly one category by one.  The totals that
\* test-csv-parsing.js prints add up in the same way.
C18_CountsPartitionTotal ==
    /\ res.success =>
          /\ Breakdown.conformes >= 0 /\ Breakdown.hallazgosMenores >= 0
          /\ Breakdown.noAdmitidas >= 0 /\ Breakdown.total >= 0
          /\ Breakdown.conformes + Breakdown.hallazgosMenores + Breakdown.noAdmitidas
                = Breakdown.total
          /\ Breakdown.total = IF req.readable /\ UnitLines # {}
                               THEN Cardinality(UnitLines) ELSE 1
    /\ \A i \in 1..Len(history) :
          LET q == history[i].calidadFruta
          IN  q.conformes + q.hallazgosMenores + q.noAdmitidas = q.total
    /\ printed.ran =>
          /\ printed.conformes >= 0 /\ printed.hallazgos >= 0 /\ printed.noAdmitidas >= 0
          /\ printed.conformes + printed.hallazgos + printed.noAdmitidas = printed.total

\* Two unit records around a line that is none: one conformant by an
\* unrecognised status, one not admitted.
C18_Witness ==
    /\ res.success /\ Len(req.lines) = 4 /\ Cardinality(UnitLines) = 2
    /\ req.lines[2] = <<"F8", "MADURA">> /\ req.lines[4] = <<"F5", "Descarte">>
    /\ Breakdown.total = 2 /\ Breakdown.conformes = 1 /\ Breakdown.noAdmitidas = 1

Abs(x) == IF x < 0 THEN -x ELSE x

\* p, in hundredths of a percent, is count/total*100 rounded to two decimals.
IsRounded(p, count, total) == 2 * Abs(p * total - count * 10000) <= total

\* The three percentages of a breakdown are the rounded shares of its
\* counts and add up to 100 within 0.1.
PercentagesRound(q) ==
    /\ IsRounded(q.porcentajeConformes, q.conformes, q.total)
    /\ IsRounded(q.porcentajeHallazgos, q.hallazgosMenores, q.total)
    /\ IsRounded(q.porcentajeNoAdmitida, q.noAdmitidas, q.total)
    /\ Abs(q.porcentajeConformes + q.porcentajeHallazgos + q.porcentajeNoAdmitida - 10000)
          <= 10

\* C19: in every breakdown stored in the history, and in the one returned
\* to the client, each of the three percentages is count/total*100 rounded
\* to two decimals, and their sum is within 0.1 of 100.
C19_PercentagesRounded ==
    /\ \A i \in 1..Len(history) : PercentagesRound(history[i].calidadFruta)
    /\ res.success => PercentagesRound(Breakdown)

\* One unit of each category out of three: 33.33 each, 99.99 together.
C19_Witness ==
    /\ Len(history) = 1
    /\ history[1].calidadFruta.total = 3
    /\ history[1].calidadFruta.porcentajeConformes = 3333
    /\ history[1].calidadFruta.porcentajeHallazgos = 3333
    /\ history[1].calidadFruta.porcentajeNoAdmitida = 3333

\* The spellings of the statuses, in any case, that count as a minor
\* finding and as not admitted.
MinorFindingSpellings ==
    {"ALERTA", "Alerta", "alerta", "HALLAZGO", "Hallazgo", "hallazgo"}

NotAdmittedSpellings ==
    {"DESCARTE", "Descarte", "descarte", "NO_ADMITIDA", "No_Admitida", "no_admitida",
     "RECHAZADO", "Rechazado", "rechazado"}

\* The status cell of unit record i, blanks around it removed; "OK" when
\* the file has no status column.
UnitStatus(i) ==
    IF StatusIndex(ReadHeaders) > 0
    THEN TrimCells(ReadLines[i])[StatusIndex(ReadHeaders)]
    ELSE "OK"

C21_EmptyBatchSubstituted ==
    /\ (res.success /\ req.readable /\ UnitLines = {}) =>
          /\ Breakdown.total = 1 /\ Breakdown.conformes = 1
          /\ Breakdown.hallazgosMenores = 0 /\ Breakdown.noAdmitidas = 0
          /\ Breakdown.porcentajeConformes = 10000
          /\ Breakdown.porcentajeHallazgos = 0 /\ Breakdown.porcentajeNoAdmitida = 0
          /\ Breakdown.defectos = <<>>
          /\ history = <<res.data>>
    /\ \A i \in 1..Len(history) : history[i].calidadFruta.total >= 1
    /\ res.success => Breakdown.total >= 1

\* A header followed by a short line and a line of empty cells: no unit
\* record, stored as one conformant unit.
C21_Witness ==
    /\ res.success /\ req.readable
    /\ Len(req.lines) = 3 /\ req.lines[2] = <<"F9">> /\ req.lines[3] = <<"", " ">>
    /\ UnitLines = {}
    /\ Len(history) = 1 /\ history[1].calidadFruta.total = 1
    /\ history[1].calidadFruta.conformes = 1

\* ------------------------------------------------------------------------
\* Properties of the contract, continued
\* ------------------------------------------------------------------------
\* C25: transactions are applied one at a time, and a completed
\* updateTransportData(lot, t) leaves the stored final weight as it was
\* while a completed updateReceptionData(lot, w) leaves the stored
\* temperature as it was; so when both complete on a registered lot, one
\* right after the other in either order, the lot stores both t and w.
C25_NoLostUpdate ==
    /\ [][(tx'.call.op = "updateTransportData" /\ tx'.status = "ok") =>
            /\ batches'[tx'.call.loteId].avgTemperature = tx'.call.avgTemperature
            /\ batches'[tx'.call.loteId].finalWeightReceived
                  = batches[tx'.call.loteId].finalWeightReceived]_vars
    /\ [][(tx'.call.op = "updateReceptionData" /\ tx'.status = "ok") =>
            /\ batches'[tx'.call.loteId].finalWeightReceived = tx'.call.finalWeightReceived
            /\ batches'[tx'.call.loteId].avgTemperature
                  = batches[tx'.call.loteId].avgTemperature]_vars
    /\ [][(/\ Done("updateTransportData") /\ Registered(tx.call.loteId)
           /\ tx'.call.op = "updateReceptionData" /\ tx'.status = "ok"
           /\ tx'.call.loteId = tx.call.loteId) =>
            /\ batches'[tx.call.loteId].avgTemperature = tx.call.avgTemperature
            /\ batches'[tx.call.loteId].finalWeightReceived = tx'.call.finalWeightReceived]_vars
    /\ [][(/\ Done("updateReceptionData") /\ Registered(tx.call.loteId)
           /\ tx'.call.op = "updateTransportData" /\ tx'.status = "ok"
           /\ tx'.call.loteId = tx.call.loteId) =>
            /\ batches'[tx.call.loteId].avgTemperature = tx'.call.avgTemperature
            /\ batches'[tx.call.loteId].finalWeightReceived = tx.call.finalWeightReceived]_vars

\* The reception of 90 came first and the transport at 810 after it: the
\* registered lot stores both.
C25_Witness ==
    /\ Done("updateTransportData") /\ Registered(tx.call.loteId)
    /\ tx.call.avgTemperature = 810
    /\ Lot.avgTemperature = 810 /\ Lot.finalWeightReceived = 90
    /\ Lot.initialWeight = 100

\* C27: a lot exists only through registration: registerBatchInitialData
\* fails only on an id registered before, and updateTransportData,
\* updateReceptionData and transferAsset complete only on an id registered
\* before, whatever ran in between; evaluateBatch on a never-registered id
\* changes none of this.
C27_ExistsOnlyThroughRegistration ==
    [][/\ (tx'.call.op = "registerBatchInitialData" /\ tx'.status # "ok")
             => Registered(tx'.call.loteId)
       /\ (/\ tx'.call.op \in {"updateTransportData", "updateReceptionData",
                               "transferAsset"}
           /\ tx'.status = "ok")
             => Registered(tx'.call.loteId)]_vars

\* C28: evaluateBatch changes nothing but the audit of its lot: the lot's
\* id, variety, registrant, weights and temperature, the other lots, the
\* thresholds and the owner are as before, the inputs are not stored; so
\* an updateReceptionData completed right after it audits with the
\* temperature stored before the evaluation.
C28_EvaluateChangesOnlyAudit ==
    /\ [][tx'.call.op = "evaluateBatch" =>
            /\ batches' = [batches EXCEPT ![tx'.call.loteId].audit =
                                              batches'[tx'.call.loteId].audit]
            /\ UNCHANGED <<owner, thresholdVars>>]_vars
    /\ [][(/\ Done("evaluateBatch")
           /\ tx'.call.op = "updateReceptionData" /\ tx'.status = "ok"
           /\ tx'.call.loteId = tx.call.loteId) =>
            LET v == SpecVerdict(Lot.avgTemperature, Lot.initialWeight,
                                 tx'.call.finalWeightReceived, 0)
            IN  /\ batches'[tx.call.loteId].audit.isCompliant = v.compliant
                /\ batches'[tx.call.loteId].audit.reason = v.reason]_vars

\* An evaluation with 810 and 110 given, on a lot that stores 750 and 96:
\* it fails on the temperature and the lot still stores 750 and 96.
C28_Witness ==
    /\ Done("evaluateBatch")
    /\ tx.call.avgTemperatureC_Input = 810 /\ tx.call.finalWeightReceived_Input = 110
    /\ Lot.avgTemperature = 750 /\ Lot.finalWeightReceived = 96
    /\ NonCompliantFor(ReasonTemperature)

\* ------------------------------------------------------------------------
\* aiAnalysis.js: the dashboard's summary of the history, processData.
\* Percentages are in hundredths of a percent, as in the upload records;
\* the figures processData formats with toFixed(1) are in tenths.
\* ------------------------------------------------------------------------
\* Records of a fetched history, at most.
MaxLots == 3

\* Counts of files of 20, 6, 2 and 1 units: 15 % not admitted, 16.67 % not
\* admitted, one minor finding in two, and all conformant.
SampleCounts ==
    [fifteen  |-> [total |-> 20, conformes |-> 17, hallazgos |-> 0, noAdmitidas |-> 3],
     sixth    |-> [total |-> 6, conformes |-> 5, hallazgos |-> 0, noAdmitidas |-> 1],
     finding  |-> [total |-> 2, conformes |-> 1, hallazgos |-> 1, noAdmitidas |-> 0],
     clean    |-> [total |-> 1, conformes |-> 1, hallazgos |-> 0, noAdmitidas |-> 0]]

SampleCalidad(name) == CalidadFruta(SampleCounts[name], Defectos(SampleCounts[name]))

\* Records as /api/history serves them, of a given date: without
\* calidadFruta (an upload of before the classifier), with it, and with
\* a simResult that POST /api/update-simulation has added.
SampleRecords(date) ==
    {[date |-> date],
     [date |-> date, simResult |-> "Conforme"],
     [date |-> date, calidadFruta |-> SampleCalidad("sixth"), simResult |-> "Conforme"],
     [date |-> date, calidadFruta |-> SampleCalidad("fifteen")],
     [date |-> date, calidadFruta |-> SampleCalidad("finding")],
     [date |-> date, calidadFruta |-> SampleCalidad("clean"), simResult |-> "Descarte"],
     [date |-> date, calidadFruta |-> SampleCalidad("clean")]}

Dates == {Instant(k) : k \in 1..4}

\* new Date(a.date) - new Date(b.date) < 0
DateBefore(a, b) ==
    \/ a[1] < b[1]
    \/ a[1] = b[1] /\ a[2] < b[2]
    \/ a[1] = b[1] /\ a[2] = b[2] /\ a[3] < b[3]
    \/ a[1] = b[1] /\ a[2] = b[2] /\ a[3] = b[3] /\ a[4] < b[4]

\* What fetchHistoryData returns: up to MaxLots records, the most recent
\* first, as GET /api/history sorts them.
FetchedHistories ==
    {h \in SeqsUpTo(UNION {SampleRecords(d) : d \in Dates}, MaxLots) :
        \A i \in 1..(Len(h) - 1) : ~DateBefore(h[i].date, h[i + 1].date)}

\* record.calidadFruta is present.
HasCalidadFruta(record) == "calidadFruta" \in DOMAIN record

\* determineBatchStatus with the limit of 15 % inclusive.
determineBatchStatusInclusive(record) ==
    IF ~HasCalidadFruta(record) THEN "Pendiente"
    ELSE IF record.calidadFruta.porcentajeNoAdmitida >= 1500 THEN "Descarte"
    ELSE IF \/ record.calidadFruta.porcentajeHallazgos > 0
            \/ record.calidadFruta.porcentajeNoAdmitida > 0
    THEN "Hallazgo"
    ELSE "Conforme"

determineBatchStatus(record) ==
    IF ~HasCalidadFruta(record) THEN "Pendiente"
    ELSE IF record.calidadFruta.porcentajeNoAdmitida > 1500 THEN "Descarte"
    ELSE IF \/ record.calidadFruta.porcentajeHallazgos > 0
            \/ record.calidadFruta.porcentajeNoAdmitida > 0
    THEN "Hallazgo"
    ELSE "Conforme"

\* conformity / val: porcentajeConformes when it is a number, else 0.
Conformity(record) ==
    IF HasCalidadFruta(record) THEN record.calidadFruta.porcentajeConformes ELSE 0

\* (sum / count).toFixed(1), sum in hundredths, the result in tenths.
toFixed1(sum, count) == (2 * sum + 10 * count) \div (20 * count)

\* statusCounts[status] after the forEach.
StatusCount(data, status) ==
    Cardinality({i \in 1..Len(data) : determineBatchStatus(data[i]) = status})

RECURSIVE SumConformity(_, _)
SumConformity(data, indices) ==
    IF indices = {} THEN 0
    ELSE LET i == CHOOSE j \in indices : TRUE
         IN  Conformity(data[i]) + SumConformity(data, indices \ {i})

\* sorted with one more record: after the records that are not later than it.
InsertByDate(sorted, record) ==
    LET k == Cardinality({i \in 1..Len(sorted) : ~DateBefore(record.date, sorted[i].date)})
    IN  SubSeq(sorted, 1, k) \o <<record>> \o SubSeq(sorted, k + 1, Len(sorted))

\* [...filteredData].sort((a, b) => new Date(a.date) - new Date(b.date))
RECURSIVE SortByDate(_)
SortByDate(data) ==
    IF data = <<>> THEN <<>>
    ELSE InsertByDate(SortByDate(SubSeq(data, 1, Len(data) - 1)), data[Len(data)])

\* date.toLocaleDateString('es-ES', { day: 'numeric', month: 'short' }):
\* the day and the month, as "5 mar".
TrendKey(date) == <<date[3], date[2]>>

\* Array.from(trendMapSorted.keys()): the keys in the order the forEach
\* first met them, from record i on.
RECURSIVE TrendLabels(_, _, _)
TrendLabels(sorted, i, labels) ==
    IF i > Len(sorted) THEN labels
    ELSE LET key == TrendKey(sorted[i].date)
         IN  TrendLabels(sorted, i + 1,
                         IF \E j \in 1..Len(labels) : labels[j] = key
                         THEN labels ELSE Append(labels, key))

\* (v.sum / v.count).toFixed(1) of the entry of a key.
TrendValue(sorted, key) ==
    LET members == {i \in 1..Len(sorted) : TrendKey(sorted[i].date) = key}
    IN  toFixed1(SumConformity(sorted, members), Cardinality(members))

\* processData(data, 'Global')
processData(data) ==
    IF Len(data) = 0
    THEN [processed |-> TRUE,
          kpis |-> [conformidad |-> 0, rechazados |-> 0, tiempo |-> "N/A",
                    completadas |-> 0],
          charts |-> [trend |-> [labels |-> <<>>, data |-> <<>>],
                      breakdown |-> [labels |-> <<>>, data |-> <<>>]]]
    ELSE LET sortedForTrend == SortByDate(data)
             finalTrendLabels == TrendLabels(sortedForTrend, 1, <<>>)
         IN  [processed |-> TRUE,
              kpis |-> [conformidad |-> toFixed1(SumConformity(data, 1..Len(data)),
                                                 Len(data)),
                        rechazados |-> StatusCount(data, "Descarte"),
                        tiempo |-> "N/A",
                        completadas |-> Len(data)],
              charts |-> [trend |-> [labels |-> finalTrendLabels,
                                     data |-> [i \in 1..Len(finalTrendLabels) |->
                                                 TrendValue(sortedForTrend,
                                                            finalTrendLabels[i])]],
                          breakdown |-> [labels |-> <<"Descarte", "Hallazgo", "Conforme">>,
                                         data |-> <<StatusCount(data, "Descarte"),
                                                    StatusCount(data, "Hallazgo"),
                                                    StatusCount(data, "Conforme")>>]]]

\* DOMContentLoaded: the fetched records are processed for the dashboard.
loadDashboard ==
    /\ ~processedData.processed
    /\ processedData' = processData(allHistoryData)
    /\ UNCHANGED allHistoryData

\* A deployed contract, an idle server and a dashboard that has fetched.
InitDashboard ==
    /\ owner = Deployer
    /\ MAX_TEMP_TRANSPORT_C = InitialThresholds[1]
    /\ MAX_WEIGHT_DEVIATION_PCT = InitialThresholds[2]
    /\ MIN_DRY_MATTER_PCT = InitialThresholds[3]
    /\ batches = [id \in LotIds |-> EmptyBatch]
    /\ now = 1
    /\ tx = Success(ConstructorCall(Deployer, InitialThresholds), <<>>)
    /\ ServerIdle
    /\ allHistoryData \in FetchedHistories
    /\ processedData = NotProcessed

LoadDashboard == loadDashboard /\ UNCHANGED <<contractVars, serverVars>>

NextDashboard == LoadDashboard

SpecDashboard == InitDashboard /\ [][NextDashboard]_vars

(***************************************************************************)
(* Properties of the dashboard.                                            *)
(***************************************************************************)

\* The status of a lot as it is derived from the classifier output alone.
DerivedStatus(record) ==
    IF "calidadFruta" \notin DOMAIN record THEN "Pending"
    ELSE LET notAdmittedPct == record.calidadFruta.porcentajeNoAdmitida
             minorFindingsPct == record.calidadFruta.porcentajeHallazgos
         IN  CASE notAdmittedPct > 1500 -> "Discard"
               [] notAdmittedPct <= 1500 /\ (notAdmittedPct > 0 \/ minorFindingsPct > 0)
                    -> "Finding"
               [] OTHER -> "Compliant"

DerivedCount(status) ==
    Cardinality({i \in 1..Len(allHistoryData) : DerivedStatus(allHistoryData[i]) = status})

\* C22: the dashboard counts every lot under the status that its classifier
\* output gives it: no output is Pending (in no count), more than 15 % not
\* admitted is Discard and exactly 15 % is not, some not admitted or some
\* minor finding is Finding, the rest is Compliant; a stored simResult
\* changes nothing.
C22_StatusFromClassifierOutput ==
    (processedData.processed /\ Len(allHistoryData) > 0) =>
        /\ processedData.charts.breakdown.data =
              <<DerivedCount("Discard"), DerivedCount("Finding"), DerivedCount("Compliant")>>
        /\ processedData.kpis.rechazados = DerivedCount("Discard")

\* A lot of exactly 15 % not admitted counted as a finding, next to a lot
\* without a defect whose simResult says Descarte.
C22_Witness ==
    /\ processedData.processed
    /\ Len(allHistoryData) = 2
    /\ \E i \in 1..2 :
          /\ HasCalidadFruta(allHistoryData[i])
          /\ allHistoryData[i].calidadFruta.porcentajeNoAdmitida = 1500
    /\ \E i \in 1..2 :
          /\ HasCalidadFruta(allHistoryData[i])
          /\ "simResult" \in DOMAIN allHistoryData[i]
          /\ allHistoryData[i].simResult = "Descarte"
    /\ processedData.charts.breakdown.data = <<0, 1, 1>>

\* C23: the summary of no lot at all has 0 audited, 0 rejected, an empty
\* trend series and a count of 0 for each of Discard, Finding and Compliant.
C23_EmptySummary ==
    (processedData.processed /\ Len(allHistoryData) = 0) =>
        /\ processedData.kpis.completadas = 0
        /\ processedData.kpis.rechazados = 0
        /\ processedData.charts.trend.labels = <<>>
        /\ processedData.charts.trend.data = <<>>
        /\ processedData.charts.breakdown.data = <<0, 0, 0>>

\* The calendar day of a date, as the instant it begins.
CalendarDay(date) == <<date[1], date[2], date[3], 0>>

CalendarDays == {CalendarDay(allHistoryData[i].date) : i \in 1..Len(allHistoryData)}

LotsOfDay(day) ==
    {i \in 1..Len(allHistoryData) : CalendarDay(allHistoryData[i].date) = day}

\* The position of a day among the days in ascending order.
DayRank(day) == Cardinality({d \in CalendarDays : ~DateBefore(day, d)})

\* C24: the trend series has one bucket for each calendar day (year, month
\* and day) on which a lot was registered, in ascending order of the days,
\* and the value of a bucket is the mean conformant percentage of the lots
\* of its day.
C24_TrendByCalendarDay ==
    (processedData.processed /\ Len(allHistoryData) > 0) =>
        /\ Len(processedData.charts.trend.data) = Cardinality(CalendarDays)
        /\ \A day \in CalendarDays :
              processedData.charts.trend.data[DayRank(day)] =
                 toFixed1(SumConformity(allHistoryData, LotsOfDay(day)),
                          Cardinality(LotsOfDay(day)))

(***************************************************************************)
(* The history endpoints of server.js.  Every handler runs from its first  *)
(* line to its response without yielding (readFileSync, writeFileSync,     *)
(* unlinkSync), so concurrent requests are handled one after the other in  *)
(* any order.                                                              *)
(***************************************************************************)

\* Uploads of the clock's moments 1..MaxUploads.
MaxUploads == 3

\* req.params.id and req.body.loteId: an id that an upload can have given,
\* and none (the body has no loteId).
NoId == 0

RecordIds == 1..MaxUploads

\* req.body.simResult; "" is an absent one.
SimResults == {"", "Descarte"}

\* The uploads of the history: an empty file, a file of one unit that is
\* not admitted, and a request without a file.
HistoryUploads ==
    {[route |-> "POST /api/upload", hasFile |-> TRUE, readable |-> TRUE,
      lines |-> f, userId |-> "u1"] :
        f \in {<<>>, <<<<"LOTE_ID", "calidad_status">>, <<"F5", "Descarte">>>>}}
    \cup {NoRequest}

DeleteRequests == [route : {"DELETE /api/history/:id"}, id : RecordIds]

UpdateRequests ==
    [route : {"POST /api/update-simulation"}, loteId : {NoId} \cup RecordIds,
     simResult : SimResults]

MessageRecordNotFound == "Registro no encontrado"

MessageDeleteFailed == "Error al eliminar el registro"

MessageDeleted == "Registro eliminado exitosamente"

MessageUpdateRequired == "Se requiere loteId y simResult"

MessageLotNotFound == "Lote no encontrado"

MessageUpdateFailed == "Error al guardar el resultado"

MessageUpdated == "Resultado de simulacion actualizado"

\* h.findIndex(record => record.id === id)
findIndex(h, id) ==
    IF \E i \in 1..Len(h) : h[i].id = id
    THEN CHOOSE i \in 1..Len(h) :
            /\ h[i].id = id
            /\ \A j \in 1..(i - 1) : h[j].id # id
    ELSE -1

\* h.splice(index, 1)
splice(h, index) == SubSeq(h, 1, index - 1) \o SubSeq(h, index + 1, Len(h))

\* The handler of DELETE /api/history/:id: readOk tells whether readHistory
\* could read the file, unlinked whether the uploaded file is gone without
\* an exception of unlinkSync, saved whether saveHistory could write the
\* file.
deleteHistory(request, readOk, unlinked, saved) ==
    /\ req' = request
    /\ LET h == readHistory(readOk)
           recordIndex == findIndex(h, request.id)
       IN  IF recordIndex = -1
           THEN /\ res' = [status |-> 404, success |-> FALSE,
                           message |-> MessageRecordNotFound]
                /\ UNCHANGED history
           ELSE IF ~unlinked
           THEN /\ res' = [status |-> 500, success |-> FALSE,
                           message |-> MessageDeleteFailed]
                /\ UNCHANGED history
           ELSE /\ history' = IF saved THEN splice(h, recordIndex) ELSE history
                /\ res' = [status |-> 200, success |-> TRUE, message |-> MessageDeleted]
    /\ UNCHANGED <<printed, clock>>

\* history[recordIndex] with simResult and lastSimulation set.
Simulated(record, simResult, date) ==
    [f \in DOMAIN record \cup {"simResult", "lastSimulation"} |->
        IF f = "simResult" THEN simResult
        ELSE IF f = "lastSimulation" THEN date
        ELSE record[f]]

\* The handler of POST /api/update-simulation.
updateSimulation(request, readOk, saved) ==
    /\ req' = request
    /\ IF request.loteId = NoId \/ request.simResult = ""
       THEN /\ res' = [status |-> 400, success |-> FALSE,
                       message |-> MessageUpdateRequired]
            /\ UNCHANGED history
       ELSE LET h == readHistory(readOk)
                recordIndex == findIndex(h, request.loteId)
            IN  IF recordIndex = -1
                THEN /\ res' = [status |-> 404, success |-> FALSE,
                                message |-> MessageLotNotFound]
                     /\ UNCHANGED history
                ELSE LET updated == Simulated(h[recordIndex], request.simResult,
                                              Instant(clock))
                     IN  IF ~saved
                         THEN /\ res' = [status |-> 500, success |-> FALSE,
                                         message |-> MessageUpdateFailed]
                              /\ UNCHANGED history
                         ELSE /\ history' = [h EXCEPT ![recordIndex] = updated]
                              /\ res' = [status |-> 200, success |-> TRUE,
                                         message |-> MessageUpdated, data |-> updated]
    /\ UNCHANGED <<printed, clock>>

\* A deployed contract no one calls, and a server with no history yet.
InitHistory ==
    /\ owner = Deployer
    /\ MAX_TEMP_TRANSPORT_C = InitialThresholds[1]
    /\ MAX_WEIGHT_DEVIATION_PCT = InitialThresholds[2]
    /\ MIN_DRY_MATTER_PCT = InitialThresholds[3]
    /\ batches = [id \in LotIds |-> EmptyBatch]
    /\ now = 1
    /\ tx = Success(ConstructorCall(Deployer, InitialThresholds), <<>>)
    /\ ServerIdle
    /\ ClientIdle

PostUpload ==
    /\ clock <= MaxUploads
    /\ \E request \in HistoryUploads, readOk, saved \in BOOLEAN :
          postUpload(request, readOk, saved)
    /\ UNCHANGED <<contractVars, clientVars>>

DeleteHistory ==
    /\ \E request \in DeleteRequests, readOk, unlinked, saved \in BOOLEAN :
          deleteHistory(request, readOk, unlinked, saved)
    /\ UNCHANGED <<contractVars, clientVars>>

UpdateSimulation ==
    /\ \E request \in UpdateRequests, readOk, saved \in BOOLEAN :
          updateSimulation(request, readOk, saved)
    /\ UNCHANGED <<contractVars, clientVars>>

NextHistory ==
    \/ PostUpload
    \/ DeleteHistory
    \/ UpdateSimulation

SpecHistory == InitHistory /\ [][NextHistory]_vars

(***************************************************************************)
(* Properties of the history endpoints.                                    *)
(***************************************************************************)

\* The request that has just been answered is of this route.
Answered(route) == req'.route = route

IdsOf(h) == {h[i].id : i \in 1..Len(h)}

\* C26: an upload that answers success leaves the persisted history as it
\* was with its one record appended, and whatever request is handled, every
\* record of the history stays in it unless that request is a successful
\* deletion of it.
C26_NoUploadLost ==
    [][/\ (Answered("POST /api/upload") /\ res'.success) =>
              history' = Append(history, res'.data)
       /\ \A id \in IdsOf(history) :
              \/ id \in IdsOf(history')
              \/ Answered("DELETE /api/history/:id") /\ req'.id = id /\ res'.success
      ]_vars

\* C29: when an endpoint answers success the persisted history has the
\* change: the record is gone after a deletion, the record of the response
\* is the last one after an upload, and the record has the simResult of
\* the request after an update.
C29_SuccessMeansPersisted ==
    [][res'.success =>
          /\ Answered("DELETE /api/history/:id") => req'.id \notin IdsOf(history')
          /\ Answered("POST /api/upload") =>
                /\ Len(history') > 0
                /\ history'[Len(history')] = res'.data
          /\ Answered("POST /api/update-simulation") =>
                \E i \in 1..Len(history') :
                   /\ history'[i].id = req'.loteId
                   /\ history'[i].simResult = req'.simResult
      ]_vars

\* C30: a deletion or an update of an id that the history does not have
\* answers 404 and leaves the history as it is; a deletion that answers
\* success leaves the history without the record of the id and with the
\* other records in their order; an update that answers success leaves
\* every record as it is but for simResult and lastSimulation of the
\* record of the id.
C30_ExactlyOneRecord ==
    [][/\ (Answered("DELETE /api/history/:id") /\ req'.id \notin IdsOf(history)) =>
              res'.status = 404 /\ history' = history
       /\ (/\ Answered("POST /api/update-simulation")
           /\ req'.loteId # NoId /\ req'.simResult # ""
           /\ req'.loteId \notin IdsOf(history)) =>
              res'.status = 404 /\ history' = history
       /\ (Answered("DELETE /api/history/:id") /\ res'.success) =>
              \E i \in 1..Len(history) :
                 /\ history[i].id = req'.id
                 /\ history' = SubSeq(history, 1, i - 1) \o SubSeq(history, i + 1, Len(history))
       /\ (Answered("POST /api/update-simulation") /\ res'.success) =>
              /\ Len(history') = Len(history)
              /\ \A i \in 1..Len(history) :
                    IF history[i].id = req'.loteId
                    THEN \A f \in DOMAIN history[i] \ {"simResult", "lastSimulation"} :
                            /\ f \in DOMAIN history'[i]
                            /\ history'[i][f] = history[i][f]
                    ELSE history'[i] = history[i]
      ]_vars

====
